---- MODULE Spec2Model ----
(***************************************************************************)
(* Model of dnd-roller.py: the read-evaluate-print loop of main, the       *)
(* field splitter ParseTree.parse_fields, the root locator                 *)
(* ParseTree.find_root_node, the recursive tree builder ParseTree /        *)
(* parse_node / multi_expression, the nodes OpNode and ValueNode with      *)
(* their values and their rendering, and the regular-expression helpers    *)
(* get_multiplier, is_multi_die and get_die_type.                          *)
(*                                                                         *)
(* A string is a sequence of one-character strings.  random.randint is a   *)
(* nondeterministic choice: an evaluation yields the SET of its possible   *)
(* outcomes, one per combination of draws, and the Evaluate action picks   *)
(* one of them.  Indices returned by find_root_node are 0-based as in the  *)
(* source.  Characters are ASCII.                                          *)
(*                                                                         *)
(* stdout is the text written to the standard output of the process.      *)
(* input() writes its prompt there unless the standard input and the       *)
(* standard output are both terminals (tty), where CPython writes the      *)
(* prompt to the standard error instead.  The standard error (prompts on   *)
(* a terminal, tracebacks) is not part of the state.                       *)
(*                                                                         *)
(* Spec is main on a standard input of up to MaxStdin lines of up to       *)
(* MaxSessionLen characters; EvalSpec is main on a standard input of one   *)
(* line of up to MaxLen characters.                                        *)
(***************************************************************************)
EXTENDS Integers, Sequences, FiniteSets, TLC

VARIABLES pc, line, result, stdout, stdin, raised, tty

vars == <<pc, line, result, stdout, stdin, raised, tty>>

\* Longest line of a one-line standard input (EvalSpec).
MaxLen == 5
\* Most lines of a standard input, and longest line of it (Spec).
MaxStdin == 2
MaxSessionLen == 1
\* Largest digit of the input alphabet, and largest numeral an input holds.
MaxNum == 2

----------------------------------------------------------------------------
\* Characters and strings

DigitChars == <<"0", "1", "2", "3", "4", "5", "6", "7", "8", "9">>

\* [0-9] of the two regular expressions
Digits == {DigitChars[i] : i \in 1..10}

DigitVal(c) == (CHOOSE i \in 1..10 : DigitChars[i] = c) - 1

\* string.whitespace: space, \t, \n, \r, vertical tab (0x0b), form feed
Whitespace == {" ", "\t", "\n", "\r", "", "\f"}

\* The ASCII characters str.strip() removes: string.whitespace and the
\* separators 0x1c .. 0x1f
StripChars == Whitespace \cup {"", "", "", ""}

PLUS == <<"+">>
MINUS == <<"-">>

\* The value None of max_value on a literal leaf
NoneValue == "None"

\* s without its leading / trailing characters of the set chars
RECURSIVE LStrip(_, _)
LStrip(s, chars) ==
  IF s # <<>> /\ Head(s) \in chars THEN LStrip(Tail(s), chars) ELSE s

RECURSIVE RStrip(_, _)
RStrip(s, chars) ==
  IF s # <<>> /\ s[Len(s)] \in chars
  THEN RStrip(SubSeq(s, 1, Len(s) - 1), chars)
  ELSE s

\* str.strip()
Strip(s) == RStrip(LStrip(s, StripChars), StripChars)

\* Number of leading decimal digits of s
RECURSIVE DigitPrefixLen(_)
DigitPrefixLen(s) ==
  IF s # <<>> /\ Head(s) \in Digits THEN 1 + DigitPrefixLen(Tail(s)) ELSE 0

\* Value of a non-empty run of decimal digits
RECURSIVE DigitsValue(_)
DigitsValue(s) ==
  IF s = <<>> THEN 0
  ELSE 10 * DigitsValue(SubSeq(s, 1, Len(s) - 1)) + DigitVal(s[Len(s)])

\* int(field): surrounding whitespace (string.whitespace, not the separators
\* 0x1c .. 0x1f), an optional sign, then decimal digits, single underscores
\* allowed between two digits
PyInt(field) ==
  LET t == RStrip(LStrip(field, Whitespace), Whitespace)
      signed == t # <<>> /\ Head(t) \in {"+", "-"}
      body == IF signed THEN Tail(t) ELSE t
      digits == SelectSeq(body, LAMBDA c : c # "_")
  IN IF /\ body # <<>>
        /\ \A i \in 1..Len(body) : body[i] \in Digits \cup {"_"}
        /\ body[1] # "_" /\ body[Len(body)] # "_"
        /\ \A i \in 1..(Len(body) - 1) : ~(body[i] = "_" /\ body[i + 1] = "_")
     THEN [ok |-> TRUE,
           val |-> IF signed /\ Head(t) = "-" THEN 0 - DigitsValue(digits)
                   ELSE DigitsValue(digits)]
     ELSE [ok |-> FALSE, val |-> 0]

\* "{}".format(n) for an integer n
RECURSIVE IntToStr(_)
IntToStr(n) ==
  IF n < 0 THEN <<"-">> \o IntToStr(0 - n)
  ELSE IF n < 10 THEN <<DigitChars[n + 1]>>
  ELSE IntToStr(n \div 10) \o <<DigitChars[(n % 10) + 1]>>

----------------------------------------------------------------------------
\* Helper functions of the source

\* DIE_MULT_REGEXP.match(field): [0-9]*d anchored at the start
DieMultMatch(field) ==
  LET k == DigitPrefixLen(field)
  IN IF Len(field) > k /\ field[k + 1] = "d"
     THEN [ok |-> TRUE, str |-> SubSeq(field, 1, k + 1)]
     ELSE [ok |-> FALSE, str |-> <<>>]

\* get_multiplier whose test for "only the d" accepts every match
get_multiplier_ignores_digits(field) ==
  LET match == DieMultMatch(field)
  IN IF match.ok
     THEN IF Len(match.str) >= 1 THEN 1
          ELSE DigitsValue(SubSeq(match.str, 1, Len(match.str) - 1))
     ELSE 1

\* get_multiplier
get_multiplier(field) ==
  LET match == DieMultMatch(field)
  IN IF match.ok
     THEN IF Len(match.str) = 1 THEN 1
          ELSE DigitsValue(SubSeq(match.str, 1, Len(match.str) - 1))
     ELSE 1

\* is_multi_die
is_multi_die(field) == get_multiplier(field) > 1

\* DIE_TYPE_REGEXP.search(field): the first d followed by a digit, and the
\* whole run of digits after it
DieTypeMatch(field) ==
  LET hits == {i \in 1..(Len(field) - 1) : field[i] = "d" /\ field[i + 1] \in Digits}
  IN IF hits = {} THEN [ok |-> FALSE, str |-> <<>>]
     ELSE LET i == CHOOSE h \in hits : \A g \in hits : h <= g
              k == DigitPrefixLen(SubSeq(field, i + 1, Len(field)))
          IN [ok |-> TRUE, str |-> SubSeq(field, i, i + k)]

\* get_die_type falling back to a one-faced die where the source raises
get_die_type_defaults(field) ==
  LET match == DieTypeMatch(field)
  IN IF match.ok
     THEN [ok |-> TRUE, val |-> DigitsValue(Tail(match.str))]
     ELSE [ok |-> TRUE, val |-> 1]

\* get_die_type
get_die_type(field) ==
  LET match == DieTypeMatch(field)
  IN IF match.ok
     THEN [ok |-> TRUE, val |-> DigitsValue(Tail(match.str))]
     ELSE [ok |-> FALSE, val |-> 0]

----------------------------------------------------------------------------
\* ParseTree.parse_fields

RECURSIVE parse_fields_loop(_, _, _, _)
parse_fields_loop(s, i, fields, curr) ==
  IF i > Len(s)
  THEN [ok |-> TRUE,
        fields |-> IF curr # <<>> THEN Append(fields, Strip(curr)) ELSE fields]
  ELSE LET c == s[i]
       IN IF c = "+"
          THEN IF ~(Len(fields) > 0 \/ curr # <<>>)
               THEN [ok |-> FALSE, fields |-> <<>>]
               ELSE parse_fields_loop(s, i + 1,
                                      Append(Append(fields, Strip(curr)), PLUS), <<>>)
          ELSE IF c = "-"
          THEN IF ~(Len(fields) > 0 \/ curr # <<>>)
               THEN [ok |-> FALSE, fields |-> <<>>]
               ELSE IF curr = <<>> /\ fields[Len(fields)] = MINUS
               THEN parse_fields_loop(s, i + 1, fields, curr)
               ELSE parse_fields_loop(s, i + 1,
                                      Append(Append(fields, Strip(curr)), MINUS), <<>>)
          ELSE parse_fields_loop(s, i + 1, fields, Append(curr, c))

parse_fields(fields_string) == parse_fields_loop(fields_string, 1, <<>>, <<>>)

----------------------------------------------------------------------------
\* Outcomes of building a (sub)tree.  A success holds the node and the
\* values drawn from random.randint, in the order drawn; a failure holds the
\* kind of the exception that aborted the construction.

Failure(kind) == [ok |-> FALSE, err |-> kind]

Success(node, rolled) == [ok |-> TRUE, node |-> node, rolled |-> rolled]

\* find_root_node taking the first "-" where the source takes the last
find_root_node_first_minus(fields) ==
  LET plus == {i \in 1..Len(fields) : fields[i] = PLUS}
      minus == {i \in 1..Len(fields) : fields[i] = MINUS}
  IN IF plus # {}
     THEN [ok |-> TRUE, idx |-> (CHOOSE i \in plus : \A j \in plus : i <= j) - 1]
     ELSE IF minus # {}
     THEN [ok |-> TRUE, idx |-> (CHOOSE i \in minus : \A j \in minus : i <= j) - 1]
     ELSE IF Len(fields) = 1
     THEN [ok |-> TRUE, idx |-> 0]
     ELSE [ok |-> FALSE, idx |-> 0]

\* find_root_node with the priorities exchanged: the last "-" first
find_root_node_minus_first(fields) ==
  LET plus == {i \in 1..Len(fields) : fields[i] = PLUS}
      minus == {i \in 1..Len(fields) : fields[i] = MINUS}
  IN IF minus # {}
     THEN [ok |-> TRUE, idx |-> (CHOOSE i \in minus : \A j \in minus : j <= i) - 1]
     ELSE IF plus # {}
     THEN [ok |-> TRUE, idx |-> (CHOOSE i \in plus : \A j \in plus : i <= j) - 1]
     ELSE IF Len(fields) = 1
     THEN [ok |-> TRUE, idx |-> 0]
     ELSE [ok |-> FALSE, idx |-> 0]

\* ParseTree.find_root_node
find_root_node(fields) ==
  LET plus == {i \in 1..Len(fields) : fields[i] = PLUS}
      minus == {i \in 1..Len(fields) : fields[i] = MINUS}
  IN IF plus # {}
     THEN [ok |-> TRUE, idx |-> (CHOOSE i \in plus : \A j \in plus : i <= j) - 1]
     ELSE IF minus # {}
     THEN [ok |-> TRUE, idx |-> (CHOOSE i \in minus : \A j \in minus : j <= i) - 1]
     ELSE IF Len(fields) = 1
     THEN [ok |-> TRUE, idx |-> 0]
     ELSE [ok |-> FALSE, idx |-> 0]

\* ParseTree.make_single_roll
make_single_roll(field) ==
  LET die_type == get_die_type(field)
  IN IF die_type.ok
     THEN [ok |-> TRUE, str |-> <<"1", "d">> \o IntToStr(die_type.val)]
     ELSE [ok |-> FALSE, str |-> <<>>]

\* multi_expression whose loop stops one roll short
multi_expression_one_short(field, mult) ==
  LET single == make_single_roll(field)
  IN IF ~single.ok THEN [ok |-> FALSE, err |-> "Exception", fields |-> <<>>]
     ELSE IF mult < 1 THEN [ok |-> FALSE, err |-> "IndexError", fields |-> <<>>]
     ELSE [ok |-> TRUE, err |-> "",
           fields |-> [i \in 1..(2 * (mult - 1) - 1) |->
                         IF i % 2 = 1 THEN single.str ELSE PLUS]]

\* ParseTree.multi_expression
multi_expression(field, mult) ==
  LET single == make_single_roll(field)
  IN IF ~single.ok THEN [ok |-> FALSE, err |-> "Exception", fields |-> <<>>]
     ELSE IF mult < 1 THEN [ok |-> FALSE, err |-> "IndexError", fields |-> <<>>]
     ELSE [ok |-> TRUE, err |-> "",
           fields |-> [i \in 1..(2 * mult - 1) |-> IF i % 2 = 1 THEN single.str ELSE PLUS]]

\* ValueNode.__init__ rolling a die a second time, the first value dropped
ValueNode_rolls_twice(field) ==
  LET isdie == \E i \in 1..Len(field) : field[i] = "d"
  IN IF isdie
     THEN LET max_value == get_die_type(field)
          IN IF ~max_value.ok THEN {Failure("Exception")}
             ELSE IF max_value.val < 1 THEN {Failure("ValueError")}
             ELSE {Success([kind |-> "ValueNode", field |-> field, isdie |-> TRUE,
                            max_value |-> max_value.val, value |-> v], <<w, v>>)
                   : v \in 1..max_value.val, w \in 1..max_value.val}
     ELSE LET n == PyInt(field)
          IN IF ~n.ok THEN {Failure("ValueError")}
             ELSE {Success([kind |-> "ValueNode", field |-> field, isdie |-> FALSE,
                            max_value |-> NoneValue, value |-> n.val], <<>>)}

\* ValueNode.__init__
ValueNode(field) ==
  LET isdie == \E i \in 1..Len(field) : field[i] = "d"
  IN IF isdie
     THEN LET max_value == get_die_type(field)
          IN IF ~max_value.ok THEN {Failure("Exception")}
             ELSE IF max_value.val < 1 THEN {Failure("ValueError")}
             ELSE {Success([kind |-> "ValueNode", field |-> field, isdie |-> TRUE,
                            max_value |-> max_value.val, value |-> v], <<v>>)
                   : v \in 1..max_value.val}
     ELSE LET n == PyInt(field)
          IN IF ~n.ok THEN {Failure("ValueError")}
             ELSE {Success([kind |-> "ValueNode", field |-> field, isdie |-> FALSE,
                            max_value |-> NoneValue, value |-> n.val], <<>>)}

\* OpNode.__init__ on the outcomes of its two operands; the left operand is
\* built first, and a failure of either aborts the construction
OpNode(lefts, rights, op) ==
  {IF ~l.ok THEN l
   ELSE IF ~r.ok THEN r
   ELSE Success([kind |-> "OpNode", left |-> l.node, right |-> r.node, op |-> op,
                 value |-> IF op = "+" THEN l.node.value + r.node.value
                           ELSE l.node.value - r.node.value],
                l.rolled \o r.rolled)
   : l \in lefts, r \in rights}

RECURSIVE ParseTree(_)
RECURSIVE parse_node(_, _)

\* ParseTree.parse_node
parse_node(fields, root_index) ==
  LET root_field == fields[root_index + 1]
      left == SubSeq(fields, 1, root_index)
      right == SubSeq(fields, root_index + 2, Len(fields))
  IN IF root_field = PLUS
     THEN IF root_index = 0 \/ root_index = Len(fields)
          THEN {Failure("AssertionError")}
          ELSE OpNode(ParseTree(left), ParseTree(right), "+")
     ELSE IF root_field = MINUS
     THEN IF root_index = 0 \/ root_index = Len(fields)
          THEN {Failure("AssertionError")}
          ELSE OpNode(ParseTree(left), ParseTree(right), "-")
     ELSE IF is_multi_die(root_field)
     THEN LET multiplier == get_multiplier(root_field)
              expr == multi_expression(root_field, multiplier)
          IN IF ~expr.ok THEN {Failure(expr.err)} ELSE ParseTree(expr.fields)
     ELSE ValueNode(root_field)

\* ParseTree.__init__ on a list of fields
ParseTree(fields) ==
  LET root == find_root_node(fields)
  IN IF ~root.ok THEN {Failure("AssertionError")}
     ELSE {IF ~o.ok THEN o
           ELSE Success([kind |-> "ParseTree", root_node |-> o.node,
                         value |-> o.node.value], o.rolled)
           : o \in parse_node(fields, root.idx)}

\* ParseTree.__init__ on a string
ParseTreeOfString(fields_string) ==
  LET parsed == parse_fields(fields_string)
  IN IF ~parsed.ok THEN {Failure("AssertionError")} ELSE ParseTree(parsed.fields)

----------------------------------------------------------------------------
\* Rendering: __str__ of ParseTree, OpNode and ValueNode

\* ValueNode.__str__ marking the minimum roll like the maximum roll
ValueNodeStr_marks_minimum(node) ==
  IF node.isdie /\ (node.value = node.max_value \/ node.value = 1)
  THEN <<"!", "*">> \o IntToStr(node.value) \o <<"*", "!", "(", "d">>
       \o IntToStr(node.max_value) \o <<")">>
  ELSE IF node.isdie
  THEN IntToStr(node.value) \o <<"(", "d">> \o IntToStr(node.max_value) \o <<")">>
  ELSE IntToStr(node.value)

\* ValueNode.__str__
ValueNodeStr(node) ==
  IF node.isdie /\ node.value = node.max_value
  THEN <<"!", "*">> \o IntToStr(node.value) \o <<"*", "!", "(", "d">>
       \o IntToStr(node.max_value) \o <<")">>
  ELSE IF node.isdie
  THEN IntToStr(node.value) \o <<"(", "d">> \o IntToStr(node.max_value) \o <<")">>
  ELSE IntToStr(node.value)

RECURSIVE Str(_)
Str(node) ==
  IF node.kind = "ParseTree" THEN Str(node.root_node)
  ELSE IF node.kind = "OpNode"
  THEN Str(node.left) \o <<" ", node.op, " ">> \o Str(node.right)
  ELSE ValueNodeStr(node)

----------------------------------------------------------------------------
\* The lines of the standard input: strings over the input alphabet in which
\* no numeral exceeds MaxNum.

InputDigits == {DigitChars[i + 1] : i \in 0..MaxNum}

Alphabet == InputDigits \cup {"d", "+", "-", " "}

\* Every maximal run of digits of s denotes a number of at most MaxNum
NumeralsOK(s) ==
  \A i \in 1..Len(s) :
    (s[i] \in Digits /\ (i = 1 \/ s[i - 1] \notin Digits))
      => LET k == DigitPrefixLen(SubSeq(s, i, Len(s)))
         IN DigitsValue(SubSeq(s, i, i + k - 1)) <= MaxNum

IsLine(s) == (\A i \in 1..Len(s) : s[i] \in Alphabet) /\ NumeralsOK(s)

\* The lines of at most MaxSessionLen characters
SessionLines ==
  {s \in UNION {[1..n -> Alphabet] : n \in 0..MaxSessionLen} : IsLine(s)}

\* all(map(lambda x: x in string.whitespace, line))
IsBlank(s) == \A i \in 1..Len(s) : s[i] \in Whitespace

\* No tree has been built (yet)
NoResult == [ok |-> FALSE, err |-> ""]

\* No exception has left main
NoException == ""

\* The prompt of input: "What would you like to roll?\n"
Prompt ==
  <<"W", "h", "a", "t", " ", "w", "o", "u", "l", "d", " ", "y", "o", "u", " ",
    "l", "i", "k", "e", " ", "t", "o", " ", "r", "o", "l", "l", "?", "\n">>

----------------------------------------------------------------------------
\* main

\* Nothing read, nothing written
Start ==
  /\ pc = "input"
  /\ line = <<>>
  /\ result = NoResult
  /\ stdout = <<>>
  /\ raised = NoException

\* What input() writes to the standard output: its prompt, or nothing when
\* the process runs on a terminal
PromptOut == IF tty THEN <<>> ELSE Prompt

\* main on a standard input of at most MaxStdin lines, on a terminal or not
Init ==
  /\ Start
  /\ tty \in BOOLEAN
  /\ \E k \in 0..MaxStdin : stdin \in [1..k -> SessionLines]

\* main on a standard input of one line of at most MaxLen characters, on a
\* terminal or not
InitOneLine ==
  /\ Start
  /\ tty \in BOOLEAN
  /\ \E n \in 0..MaxLen : \E l \in [1..n -> Alphabet] :
       IsLine(l) /\ stdin = <<l>>

\* line = input(...): the prompt is written (to the standard output unless
\* on a terminal), then a line is read, or EOFError leaves main at the end of
\* the standard input; a blank line breaks out of the loop
ReadLine ==
  /\ pc = "input"
  /\ stdout' = stdout \o PromptOut
  /\ IF stdin = <<>>
     THEN pc' = "raised" /\ raised' = "EOFError" /\ UNCHANGED <<line, stdin>>
     ELSE /\ line' = Head(stdin)
          /\ stdin' = Tail(stdin)
          /\ pc' = IF IsBlank(Head(stdin)) THEN "exited" ELSE "evaluate"
          /\ UNCHANGED raised
  /\ UNCHANGED <<result, tty>>

\* result = ParseTree(line); an exception leaves main, which has no handler,
\* before result is assigned
Evaluate ==
  /\ pc = "evaluate"
  /\ \E o \in ParseTreeOfString(line) :
       IF o.ok
       THEN result' = o /\ pc' = "print" /\ UNCHANGED raised
       ELSE raised' = o.err /\ pc' = "raised" /\ UNCHANGED result
  /\ UNCHANGED <<line, stdout, stdin, tty>>

\* What print writes for a tree: "{expr} = {res}\n" and the newline of print
Printed(node) ==
  Str(node) \o <<" ", "=", " ">> \o IntToStr(node.value) \o <<"\n", "\n">>

\* print("{expr} = {res}\n".format(expr=result, res=result.value))
PrintResult ==
  /\ pc = "print"
  /\ stdout' = stdout \o Printed(result.node)
  /\ pc' = "printed"
  /\ UNCHANGED <<line, result, stdin, raised, tty>>

\* while True: back to input
LoopAgain ==
  /\ pc = "printed"
  /\ pc' = "input"
  /\ UNCHANGED <<line, result, stdout, stdin, raised, tty>>

Next == ReadLine \/ Evaluate \/ PrintResult \/ LoopAgain

Spec == Init /\ [][Next]_vars

EvalSpec == InitOneLine /\ [][Next]_vars

----------------------------------------------------------------------------
\* Vocabulary of the properties

\* ParseTree(line) has raised an exception, which has left main
Crashed == pc = "raised" /\ raised # "EOFError"

\* ParseTree(line) has returned the tree now held in result
Succeeded == pc \in {"print", "printed"}

\* main has evaluated the current line (with or without success)
Evaluated == Succeeded \/ Crashed

\* The leaves of a tree, left to right
RECURSIVE Leaves(_)
Leaves(node) ==
  IF node.kind = "ParseTree" THEN Leaves(node.root_node)
  ELSE IF node.kind = "OpNode" THEN Leaves(node.left) \o Leaves(node.right)
  ELSE <<node>>

DieLeaves(node) == SelectSeq(Leaves(node), LAMBDA n : n.isdie)

Count(s, c) == Cardinality({i \in 1..Len(s) : s[i] = c})

RECURSIVE Sum(_)
Sum(s) == IF s = <<>> THEN 0 ELSE Head(s) + Sum(Tail(s))

IsOp(c) == c \in {"+", "-"}

AllDigits(s) == s # <<>> /\ \A i \in 1..Len(s) : s[i] \in Digits

\* The string is exactly {digits}d{digits}: an explicit multiplier, a face count
IsExplicitDie(s) ==
  LET k == DigitPrefixLen(s)
  IN /\ k >= 1
     /\ Len(s) > k + 1
     /\ s[k + 1] = "d"
     /\ AllDigits(SubSeq(s, k + 2, Len(s)))

\* Multiplier and face count written in a string {digits}d{digits} or d{digits}
WrittenMult(s) == DigitsValue(SubSeq(s, 1, DigitPrefixLen(s)))
WrittenFaces(s) == DigitsValue(SubSeq(s, DigitPrefixLen(s) + 2, Len(s)))

\* Every contiguous slice of a field sequence, the empty one included
Slices(fields) ==
  {SubSeq(fields, i, j) : i \in 1..(Len(fields) + 1), j \in 0..Len(fields)}

FirstIndex(fields, f) ==
  (CHOOSE i \in 1..Len(fields) :
     fields[i] = f /\ \A j \in 1..(i - 1) : fields[j] # f) - 1

LastIndex(fields, f) ==
  (CHOOSE i \in 1..Len(fields) :
     fields[i] = f /\ \A j \in (i + 1)..Len(fields) : fields[j] # f) - 1

Has(fields, f) == \E i \in 1..Len(fields) : fields[i] = f

\* The string s ends with the string t
EndsWith(s, t) == Len(t) <= Len(s) /\ SubSeq(s, Len(s) - Len(t) + 1, Len(s)) = t

----------------------------------------------------------------------------
\* C1 (as amended): on every slice of the fields of an evaluated line,
\* find_root_node returns the index of the FIRST "+" whenever the slice holds
\* a "+"; only when it holds no "+" does it return the index of the LAST "-";
\* with no operator field it returns 0 on a one-element slice and fails
\* otherwise.
C1_RootIsFirstPlusElseLastMinus ==
  (Evaluated /\ parse_fields(line).ok) =>
    \A f \in Slices(parse_fields(line).fields) :
      LET r == find_root_node(f)
      IN /\ Has(f, PLUS) => (r.ok /\ r.idx = FirstIndex(f, PLUS))
         /\ (~Has(f, PLUS) /\ Has(f, MINUS)) => (r.ok /\ r.idx = LastIndex(f, MINUS))
         /\ (~Has(f, PLUS) /\ ~Has(f, MINUS)) =>
              IF Len(f) = 1 THEN r.ok /\ r.idx = 0 ELSE ~r.ok

\* C1 witness: a line with a "-" before a "+" has been evaluated and printed,
\* and the root chosen for its fields is the "+", not the "-".
C1_Witness ==
  /\ pc = "printed"
  /\ LET f == parse_fields(line).fields
     IN /\ Has(f, PLUS) /\ Has(f, MINUS)
        /\ LastIndex(f, MINUS) < FirstIndex(f, PLUS)
        /\ find_root_node(f).idx = FirstIndex(f, PLUS)

\* C1 as stated: the last "-" is the root whenever there is any "-", and the
\* first "+" only when there is no "-".
C1_RootIsLastMinusElseFirstPlus ==
  (pc \in {"print", "printed"}) =>
    \A f \in Slices(parse_fields(line).fields) :
      LET r == find_root_node(f)
      IN /\ Has(f, MINUS) => (r.ok /\ r.idx = LastIndex(f, MINUS))
         /\ (~Has(f, MINUS) /\ Has(f, PLUS)) => (r.ok /\ r.idx = FirstIndex(f, PLUS))
         /\ (~Has(f, PLUS) /\ ~Has(f, MINUS)) =>
              IF Len(f) = 1 THEN r.ok /\ r.idx = 0 ELSE ~r.ok

----------------------------------------------------------------------------
\* Well-formed additive expressions and their left-to-right value, defined on
\* the characters of the line, independently of parse_fields and of the tree.

OpPositions(s) == {i \in 1..Len(s) : IsOp(s[i])}

LastOp(s) == CHOOSE i \in OpPositions(s) : \A j \in OpPositions(s) : j <= i

\* A non-negative integer literal, or a die term [digits]d{digits} with at
\* least one face
IsOperand(t) ==
  LET k == DigitPrefixLen(t)
  IN \/ (k >= 1 /\ k = Len(t))
     \/ /\ Len(t) > k + 1
        /\ t[k + 1] = "d"
        /\ AllDigits(SubSeq(t, k + 2, Len(t)))
        /\ DigitsValue(SubSeq(t, k + 2, Len(t))) >= 1

\* operand (op operand)*, blanks allowed around the operands
RECURSIVE WellFormed(_)
WellFormed(s) ==
  IF OpPositions(s) = {} THEN IsOperand(Strip(s))
  ELSE /\ WellFormed(SubSeq(s, 1, LastOp(s) - 1))
       /\ IsOperand(Strip(SubSeq(s, LastOp(s) + 1, Len(s))))

\* Dice an operand rolls: its multiplier when that is above 1, else one
\* (a literal rolls none)
OperandDice(t) ==
  IF ~Has(t, "d") THEN 0
  ELSE IF DigitPrefixLen(t) = 0 THEN 1
  ELSE IF WrittenMult(t) > 1 THEN WrittenMult(t)
  ELSE 1

\* Value of an operand given the draws made for it
OperandValue(t, draws) == IF Has(t, "d") THEN Sum(draws) ELSE DigitsValue(t)

RECURSIVE TotalDice(_)
TotalDice(s) ==
  IF OpPositions(s) = {} THEN OperandDice(Strip(s))
  ELSE TotalDice(SubSeq(s, 1, LastOp(s) - 1))
       + OperandDice(Strip(SubSeq(s, LastOp(s) + 1, Len(s))))

\* E = E + T | E - T | T, the draws being handed out from left to right
RECURSIVE LeftToRight(_, _)
LeftToRight(s, draws) ==
  IF OpPositions(s) = {} THEN OperandValue(Strip(s), draws)
  ELSE LET k == LastOp(s)
           t == Strip(SubSeq(s, k + 1, Len(s)))
           m == Len(draws) - OperandDice(t)
           rest == LeftToRight(SubSeq(s, 1, k - 1), SubSeq(draws, 1, m))
           own == OperandValue(t, SubSeq(draws, m + 1, Len(draws)))
       IN IF s[k] = "+" THEN rest + own ELSE rest - own

\* C2: for every well-formed line (operands joined by "+" and "-", each a
\* non-negative literal or a die term), the evaluation succeeds, draws one
\* value per die of the line, and its total is the left-to-right value of
\* the expression over the operands' values.
C2_TotalIsLeftToRightValue ==
  (Evaluated /\ WellFormed(line)) =>
    /\ Succeeded
    /\ Len(result.rolled) = TotalDice(line)
    /\ result.node.value = LeftToRight(line, result.rolled)

\* C2 witness: a printed well-formed line with a "+" and a "-", the "-"
\* coming first.
C2_Witness ==
  /\ pc = "printed"
  /\ WellFormed(line)
  /\ Has(line, "+") /\ Has(line, "-")
  /\ \E i, j \in 1..Len(line) : i < j /\ line[i] = "-" /\ line[j] = "+"
  /\ result.node.value = LeftToRight(line, result.rolled)

----------------------------------------------------------------------------
\* C3: for every line {M}d{F} with M >= 2 and F >= 1, the term is rewritten
\* into M fields 1d{F} joined by "+"; the tree has exactly M leaves, each a
\* multiplier-1 die of F faces with a value in 1..F; the rendering has M die
\* sub-terms joined by M - 1 "+"; and M <= total <= M * F.
C3_MultiDieExpands ==
  (Evaluated /\ IsExplicitDie(line) /\ WrittenMult(line) >= 2 /\ WrittenFaces(line) >= 1) =>
    LET M == WrittenMult(line)
        F == WrittenFaces(line)
        single == <<"1", "d">> \o IntToStr(F)
        expr == multi_expression(line, M)
    IN /\ expr.ok
       /\ Len(expr.fields) = 2 * M - 1
       /\ \A i \in 1..Len(expr.fields) :
            expr.fields[i] = IF i % 2 = 1 THEN single ELSE PLUS
       /\ Succeeded
       /\ Len(Leaves(result.node)) = M
       /\ \A i \in 1..Len(Leaves(result.node)) :
            LET leaf == Leaves(result.node)[i]
            IN /\ leaf.isdie
               /\ leaf.field = single
               /\ get_multiplier(leaf.field) = 1
               /\ leaf.max_value = F
               /\ leaf.value \in 1..F
       /\ Count(Str(result.node), "d") = M
       /\ Count(Str(result.node), "+") = M - 1
       /\ Count(Str(result.node), "-") = 0
       /\ M <= result.node.value /\ result.node.value <= M * F

\* C3 witness: a line {M}d{F} with M >= 2 and F >= 2 has been printed with a
\* total strictly between M and M * F.
C3_Witness ==
  /\ pc = "printed"
  /\ IsExplicitDie(line) /\ WrittenMult(line) >= 2 /\ WrittenFaces(line) >= 2
  /\ WrittenMult(line) < result.node.value
  /\ result.node.value < WrittenMult(line) * WrittenFaces(line)

----------------------------------------------------------------------------
\* The line is 1d{F} or d{F}
IsSingleDieInput(s) ==
  /\ Len(s) >= 2
  /\ \/ (s[1] = "d" /\ AllDigits(Tail(s)))
     \/ (Len(s) >= 3 /\ s[1] = "1" /\ s[2] = "d" /\ AllDigits(SubSeq(s, 3, Len(s))))

SingleDieFaces(s) ==
  IF s[1] = "d" THEN DigitsValue(Tail(s)) ELSE DigitsValue(SubSeq(s, 3, Len(s)))

\* C4: for every line 1d{F} or d{F} with F >= 1, the tree is one die leaf
\* whose value v is in 1..F and is the total; it renders as "{v}(d{F})" when
\* v < F and as "!*{v}*!(d{F})" exactly when v = F (so a roll of 1 is plain
\* unless F = 1).
C4_SingleDieValueAndRendering ==
  (Evaluated /\ IsSingleDieInput(line) /\ SingleDieFaces(line) >= 1) =>
    LET F == SingleDieFaces(line)
    IN /\ Succeeded
       /\ Len(Leaves(result.node)) = 1
       /\ LET leaf == Leaves(result.node)[1]
              v == leaf.value
              plain == IntToStr(v) \o <<"(", "d">> \o IntToStr(F) \o <<")">>
              marked == <<"!", "*">> \o IntToStr(v) \o <<"*", "!", "(", "d">>
                        \o IntToStr(F) \o <<")">>
          IN /\ leaf.isdie
             /\ v \in 1..F
             /\ result.rolled = <<v>>
             /\ result.node.value = v
             /\ Str(result.node) = IF v = F THEN marked ELSE plain
             /\ pc = "printed" =>
                  EndsWith(stdout, (IF v = F THEN marked ELSE plain)
                                   \o <<" ", "=", " ">> \o IntToStr(v)
                                   \o <<"\n", "\n">>)

\* C4 witness: on a terminal, a die of more than one face has been printed
\* after rolling 1, in the plain form, and nothing else is on the standard
\* output.
C4_Witness ==
  /\ pc = "printed"
  /\ tty
  /\ IsSingleDieInput(line) /\ SingleDieFaces(line) >= 2
  /\ result.node.value = 1
  /\ stdout = <<"1", "(", "d">> \o IntToStr(SingleDieFaces(line))
              \o <<")", " ", "=", " ", "1", "\n", "\n">>

----------------------------------------------------------------------------
\* The maximal operator-free pieces of a line that hold a "d" but no "d"
\* directly followed by a digit
BadDieSegment(s) ==
  \E i \in 1..Len(s) : \E j \in i..Len(s) :
    /\ i = 1 \/ IsOp(s[i - 1])
    /\ j = Len(s) \/ IsOp(s[j + 1])
    /\ \A k \in i..j : ~IsOp(s[k])
    /\ \E k \in i..j : s[k] = "d"
    /\ ~\E k \in i..(j - 1) : s[k] = "d" /\ s[k + 1] \in Digits

LeadingOp(s) == s # <<>> /\ IsOp(s[1])

TrailingOp(s) == s # <<>> /\ IsOp(s[Len(s)])

\* C5: a line that starts with "+" or "-", or ends with an operator that no
\* operand follows, or has an operand with a "d" but no "d" followed by a
\* digit, never evaluates to a total: its evaluation fails.
C5_MalformedInputFails ==
  (Evaluated /\ (LeadingOp(line) \/ TrailingOp(line) \/ BadDieSegment(line))) =>
    (Crashed /\ ~Succeeded)

\* C5 witness: the evaluation of a line whose only defect is a die term
\* without a face count has failed.
C5_Witness ==
  /\ Crashed
  /\ BadDieSegment(line) /\ ~LeadingOp(line) /\ ~TrailingOp(line)
  /\ raised = "Exception"

----------------------------------------------------------------------------
\* The line is a--b for two one-digit literals a and b
IsDoubleMinus(s) ==
  /\ Len(s) = 4
  /\ s[1] \in Digits /\ s[2] = "-" /\ s[3] = "-" /\ s[4] \in Digits

\* C6 as stated: a line a--b does not fail; its second "-" is the sign of the
\* right operand, a literal leaf of value -b, and the total is a - (-b).
C6_DoubleMinusIsNegativeLiteral ==
  (Evaluated /\ IsDoubleMinus(line)) =>
    /\ Succeeded
    /\ Leaves(result.node)[Len(Leaves(result.node))].value = 0 - DigitVal(line[4])
    /\ result.node.value = DigitVal(line[1]) + DigitVal(line[4])

----------------------------------------------------------------------------
\* C7 as stated: the loop of main ends only on a blank line; a line whose
\* evaluation fails is never fatal to the process.
C7_OnlyBlankLineEndsLoop ==
  (pc = "exited" \/ Crashed) => IsBlank(line)

----------------------------------------------------------------------------
\* Every operation node holds the result of its operator on its operands'
\* values, and every ParseTree the value of its root node
RECURSIVE ValuesConsistent(_)
ValuesConsistent(node) ==
  IF node.kind = "ParseTree"
  THEN node.value = node.root_node.value /\ ValuesConsistent(node.root_node)
  ELSE IF node.kind = "OpNode"
  THEN /\ node.value = IF node.op = "+" THEN node.left.value + node.right.value
                       ELSE node.left.value - node.right.value
       /\ ValuesConsistent(node.left)
       /\ ValuesConsistent(node.right)
  ELSE TRUE

\* C8: one evaluation draws exactly one value per die leaf of the tree it
\* builds, each die leaf holds the value drawn for it, in order, every node's
\* value is the one fixed at construction, and printing neither draws nor
\* changes a value: what was printed is what the tree renders to afterwards.
C8_OneDrawPerDieAndStableRendering ==
  (pc \in {"print", "printed"}) =>
    /\ Len(result.rolled) = Len(DieLeaves(result.node))
    /\ \A i \in 1..Len(result.rolled) :
         DieLeaves(result.node)[i].value = result.rolled[i]
    /\ ValuesConsistent(result.node)
    /\ pc = "printed" =>
         EndsWith(stdout, Str(result.node) \o <<" ", "=", " ">>
                          \o IntToStr(result.node.value) \o <<"\n", "\n">>)

\* C8 witness: a tree with two die leaves holding different values and a
\* literal leaf has been printed after the prompt, off a terminal.
C8_Witness ==
  /\ pc = "printed"
  /\ ~tty
  /\ stdout = Prompt \o Printed(result.node)
  /\ Len(DieLeaves(result.node)) = 2
  /\ Len(Leaves(result.node)) = 3
  /\ result.rolled[1] # result.rolled[2]

----------------------------------------------------------------------------
HasTripleMinus(s) ==
  \E i \in 1..(Len(s) - 2) : s[i] = "-" /\ s[i + 1] = "-" /\ s[i + 2] = "-"

\* C9 as stated: a line with three or more consecutive "-" is rejected, never
\* evaluated.
C9_TripleMinusRejected ==
  (Evaluated /\ HasTripleMinus(line)) => Crashed

----------------------------------------------------------------------------
\* C10 as stated: a line {M}d{F} with an explicit M >= 0 and F >= 1 creates
\* exactly M die leaves and consumes exactly M draws; with M = 0 it rolls no
\* die and its total is 0.
C10_ExplicitMultiplierCountsDice ==
  (Evaluated /\ IsExplicitDie(line) /\ WrittenFaces(line) >= 1) =>
    /\ Succeeded
    /\ Len(DieLeaves(result.node)) = WrittenMult(line)
    /\ Len(result.rolled) = WrittenMult(line)
    /\ WrittenMult(line) = 0 => result.node.value = 0

\* C10 (as amended): a line {M}d{F} with F >= 1 creates exactly M die leaves
\* and consumes exactly M draws when M >= 1; with M = 0 it is a single die:
\* one die leaf of F faces, one draw, and a total in 1..F.
C10_MultiplierCountsDiceZeroIsOne ==
  (Evaluated /\ IsExplicitDie(line) /\ WrittenFaces(line) >= 1) =>
    LET M == WrittenMult(line)
        n == IF M = 0 THEN 1 ELSE M
    IN /\ Succeeded
       /\ Len(Leaves(result.node)) = n
       /\ Len(DieLeaves(result.node)) = n
       /\ Len(result.rolled) = n
       /\ \A i \in 1..n : DieLeaves(result.node)[i].max_value = WrittenFaces(line)
       /\ M = 0 => result.node.value \in 1..WrittenFaces(line)

\* C10 witness: a line 0d{F} has been printed with one die leaf and a total
\* of at least 1.
C10_Witness ==
  /\ pc = "printed"
  /\ IsExplicitDie(line) /\ WrittenMult(line) = 0 /\ WrittenFaces(line) >= 1
  /\ Len(DieLeaves(result.node)) = 1
  /\ result.node.value >= 1

====
